---- MODULE Spec2Model ----
(***************************************************************************)
(* Model of main.py: phone normalisation, full-name parsing, merging of   *)
(* duplicate contacts and the address-book pipeline built from them.      *)
(*                                                                         *)
(* A Python str is a sequence of one-character strings.  The Cyrillic     *)
(* letters of the extension marker are written in Latin: "d" "o" "b" are  *)
(* the lower-case letters of the marker and "D" "O" "B" their upper-case  *)
(* forms; every other letter used below ("x", "a", ...) is a letter that  *)
(* does not occur in the marker.                                           *)
(***************************************************************************)
EXTENDS Integers, Sequences, FiniteSets, TLC

VARIABLES pc, phone, formatted, normalized, renormalized,
          fio_string, fio,
          raw_contacts, processed_contacts, contacts_list, todo, merged,
          final_contacts

vars == <<pc, phone, formatted, normalized, renormalized, fio_string, fio,
          raw_contacts, processed_contacts, contacts_list, todo, merged,
          final_contacts>>

phone_vars == <<phone, formatted, normalized, renormalized>>

fio_vars == <<fio_string, fio>>

book_vars == <<raw_contacts, processed_contacts, contacts_list, todo, merged,
               final_contacts>>

-----------------------------------------------------------------------------
(* Bounds of the inputs.                                                   *)

MaxPieces == 4

MaxFioLen == 8

MaxContacts == 3

MaxRaw == 3

-----------------------------------------------------------------------------
(* Characters and the regular expressions of main.py.                      *)

Digits == {"0", "1", "2", "3", "4", "5", "6", "7", "8", "9"}

Whitespace == {" ", "\t"}

lower(c) ==
    CASE c = "D" -> "d"
      [] c = "O" -> "o"
      [] c = "B" -> "b"
      [] OTHER -> c

str_lower(s) == [i \in 1..Len(s) |-> lower(s[i])]

IsDigit(c) == c \in Digits

\* re.sub(r'\D', '', s)
re_sub_nondigits(s) == SelectSeq(s, IsDigit)

\* s.startswith(c) for a one-character c
startswith(s, c) == Len(s) >= 1 /\ s[1] = c

\* needle in s, for the three-character marker
contains_marker(s) ==
    \E j \in 1..Len(s) : j + 2 <= Len(s) /\ SubSeq(s, j, j + 2) = <<"d", "o", "b">>

\* the three marker letters, matched ignoring case, start at position j of s
marker_at(s, j) ==
    /\ j + 2 <= Len(s)
    /\ lower(s[j]) = "d"
    /\ lower(s[j + 1]) = "o"
    /\ lower(s[j + 2]) = "b"

RECURSIVE skip_whitespace(_, _)
\* the last position of the run of whitespace that starts right after k
skip_whitespace(s, k) ==
    IF k + 1 <= Len(s) /\ s[k + 1] \in Whitespace
    THEN skip_whitespace(s, k + 1)
    ELSE k

\* the last position of the match of r'доб\.?\s*' that starts at j
match_end(s, j) ==
    LET k == IF j + 3 <= Len(s) /\ s[j + 3] = "." THEN j + 3 ELSE j + 2
    IN  skip_whitespace(s, k)

RECURSIVE re_split_from(_, _, _)
\* the pieces of s from position start on, scanning for a match from j
re_split_from(s, start, j) ==
    IF j > Len(s)
    THEN <<SubSeq(s, start, Len(s))>>
    ELSE IF marker_at(s, j)
         THEN LET e == match_end(s, j)
              IN  <<SubSeq(s, start, j - 1)>> \o re_split_from(s, e + 1, e + 1)
         ELSE re_split_from(s, start, j + 1)

\* re.split(r'доб\.?\s*', s, flags=re.IGNORECASE): s cut at every match
re_split(s) == re_split_from(s, 1, 1)

-----------------------------------------------------------------------------
(* process_phone and process_phone_with_extension.                         *)

\* process_phone with the country code left in the number that is grouped
process_phone_country_code_kept(p) ==
    IF p = <<>>
    THEN <<>>
    ELSE LET stripped == re_sub_nondigits(p)
             digits == IF startswith(stripped, "8")
                       THEN <<"7">> \o Tail(stripped)
                       ELSE stripped
         IN  IF Len(digits) = 11 /\ startswith(digits, "7")
             THEN LET main_number == digits
                  IN  <<"+", "7", "(">> \o SubSeq(main_number, 1, 3)
                        \o <<")">> \o SubSeq(main_number, 4, 6)
                        \o <<"-">> \o SubSeq(main_number, 7, 8)
                        \o <<"-">> \o SubSeq(main_number, 9, Len(main_number))
             ELSE p

process_phone(p) ==
    IF p = <<>>
    THEN <<>>
    ELSE LET stripped == re_sub_nondigits(p)
             digits == IF startswith(stripped, "8")
                       THEN <<"7">> \o Tail(stripped)
                       ELSE stripped
         IN  IF Len(digits) = 11 /\ startswith(digits, "7")
             THEN LET main_number == Tail(digits)
                  IN  <<"+", "7", "(">> \o SubSeq(main_number, 1, 3)
                        \o <<")">> \o SubSeq(main_number, 4, 6)
                        \o <<"-">> \o SubSeq(main_number, 7, 8)
                        \o <<"-">> \o SubSeq(main_number, 9, Len(main_number))
             ELSE p

process_phone_with_extension(p) ==
    IF p = <<>>
    THEN <<>>
    ELSE IF contains_marker(str_lower(p))
         THEN LET parts == re_split(p)
                  main_phone == process_phone(parts[1])
                  extension == IF Len(parts) > 1
                               THEN re_sub_nondigits(parts[2])
                               ELSE <<>>
              IN  IF extension # <<>>
                  THEN main_phone \o <<" ", "d", "o", "b", ".">> \o extension
                  ELSE main_phone
         ELSE process_phone(p)

-----------------------------------------------------------------------------
(* Phone inputs: every concatenation of at most MaxPieces pieces.          *)

PhonePieces ==
    { <<"8">>, <<"+", "7">>, <<"1">>,
      <<"9", "1", "6", "1", "2", "3", "4", "5", "6", "7">>,
      <<"(", "9", "1", "6", ")", "1", "2", "3", "-", "4", "5", "-", "6", "7">>,
      <<"d", "o", "b">>, <<"D", "o", "B", ".", " ">>,
      <<"d", "O", "b", ".", "2">>,
      <<"x">>, <<" ">> }

RECURSIVE concat(_)
concat(ps) == IF ps = <<>> THEN <<>> ELSE Head(ps) \o concat(Tail(ps))

PhoneInputs ==
    { concat(ps) : ps \in UNION { [1..n -> PhonePieces] : n \in 0..MaxPieces } }

None == <<"None">>

InitPhone ==
    /\ pc = "phone"
    /\ phone \in PhoneInputs
    /\ formatted = None
    /\ normalized = None
    /\ renormalized = None
    /\ fio_string = <<>>
    /\ fio = None
    /\ raw_contacts = <<>>
    /\ processed_contacts = <<>>
    /\ contacts_list = <<>>
    /\ todo = <<>>
    /\ merged = <<>>
    /\ final_contacts = None

\* process_phone applied to the phone field
ProcessPhone ==
    /\ pc = "phone"
    /\ formatted' = process_phone(phone)
    /\ pc' = "formatted"
    /\ UNCHANGED <<phone, normalized, renormalized, fio_vars, book_vars>>

\* process_phone_with_extension applied to the phone field
ProcessPhoneWithExtension ==
    /\ pc = "formatted"
    /\ normalized' = process_phone_with_extension(phone)
    /\ pc' = "normalized"
    /\ UNCHANGED <<phone, formatted, renormalized, fio_vars, book_vars>>

\* the pipeline run again on its own output: the phone of the written row
ProcessPhoneAgain ==
    /\ pc = "normalized"
    /\ renormalized' = process_phone_with_extension(normalized)
    /\ pc' = "renormalized"
    /\ UNCHANGED <<phone, formatted, normalized, fio_vars, book_vars>>

NextPhone == ProcessPhone \/ ProcessPhoneWithExtension \/ ProcessPhoneAgain

SpecPhone == InitPhone /\ [][NextPhone]_vars

-----------------------------------------------------------------------------
(* Claims about the phone normalisation, checked under SpecPhone.          *)

AllDigits(s) == \A i \in 1..Len(s) : s[i] \in Digits

\* s is +7(DDD)DDD-DD-DD
IsCanonicalMain(s) ==
    /\ Len(s) = 16
    /\ s[1] = "+" /\ s[2] = "7" /\ s[3] = "("
    /\ AllDigits(SubSeq(s, 4, 6))
    /\ s[7] = ")"
    /\ AllDigits(SubSeq(s, 8, 10))
    /\ s[11] = "-"
    /\ AllDigits(SubSeq(s, 12, 13))
    /\ s[14] = "-"
    /\ AllDigits(SubSeq(s, 15, 16))

\* s is +7(DDD)DDD-DD-DD, optionally followed by " dob." and one or more digits
IsCanonical(s) ==
    /\ Len(s) >= 16
    /\ IsCanonicalMain(SubSeq(s, 1, 16))
    /\ \/ Len(s) = 16
       \/ /\ Len(s) >= 22
          /\ SubSeq(s, 17, 21) = <<" ", "d", "o", "b", ".">>
          /\ AllDigits(SubSeq(s, 22, Len(s)))

PhoneNormalized == pc \in {"normalized", "renormalized"}

\* C1: the phone produced by process_phone_with_extension is either the input
\* unchanged or of the canonical form +7(DDD)DDD-DD-DD with an optional
\* " dob." and digits after it; no other shape is possible.
C1_PhoneShape ==
    PhoneNormalized => (normalized = phone \/ IsCanonical(normalized))

\* C2: process_phone takes the digits d of the input, a leading 8 replaced by
\* 7; with exactly 11 digits starting with 7 it returns
\* +7(d2 d3 d4)d5 d6 d7-d8 d9-d10 d11, and in every other case the input
\* itself, character for character (the empty input included).
C2_ProcessPhone ==
    pc # "phone" =>
        LET d0 == SelectSeq(phone, IsDigit)
            d == [i \in 1..Len(d0) |-> IF i = 1 /\ d0[1] = "8" THEN "7" ELSE d0[i]]
        IN  IF Len(d) = 11 /\ d[1] = "7"
            THEN formatted = <<"+", "7", "(", d[2], d[3], d[4], ")", d[5], d[6],
                               d[7], "-", d[8], d[9], "-", d[10], d[11]>>
            ELSE formatted = phone

\* a number written with a leading 8 and punctuation has been reformatted
C2_Witness ==
    /\ pc # "phone"
    /\ phone = <<"8", "(", "9", "1", "6", ")", "1", "2", "3", "-", "4", "5",
                 "-", "6", "7">>
    /\ formatted = <<"+", "7", "(", "9", "1", "6", ")", "1", "2", "3", "-",
                     "4", "5", "-", "6", "7">>

HasMarker(s) == \E j \in 1..Len(s) : marker_at(s, j)

FirstMarker(s) ==
    CHOOSE j \in 1..Len(s) : marker_at(s, j) /\ \A i \in 1..(j - 1) : ~marker_at(s, i)

\* C3: an input with the marker is split at the first marker only: the main
\* part is what precedes it, the extension part everything after it (later
\* markers and what follows them included); the result is
\* process_phone(main), followed by " dob." and all digits of the extension
\* part when there are any.  Without a marker the result is process_phone of
\* the whole input.
C3_SplitAtFirstMarker ==
    PhoneNormalized =>
        IF HasMarker(phone)
        THEN LET j == FirstMarker(phone)
                 main == SubSeq(phone, 1, j - 1)
                 ext == SelectSeq(SubSeq(phone, j + 3, Len(phone)), IsDigit)
             IN  normalized = IF ext # <<>>
                              THEN process_phone(main) \o <<" ", "d", "o", "b", ".">> \o ext
                              ELSE process_phone(main)
        ELSE normalized = process_phone(phone)

\* C9: normalising a normalised phone again changes nothing.
C9_Idempotent ==
    pc = "renormalized" => renormalized = normalized

-----------------------------------------------------------------------------
(* parse_fio.                                                              *)

RECURSIVE str_lstrip(_)
str_lstrip(s) ==
    IF s # <<>> /\ Head(s) \in Whitespace THEN str_lstrip(Tail(s)) ELSE s

RECURSIVE str_rstrip(_)
str_rstrip(s) ==
    IF s # <<>> /\ s[Len(s)] \in Whitespace
    THEN str_rstrip(SubSeq(s, 1, Len(s) - 1))
    ELSE s

\* s.strip()
str_strip(s) == str_rstrip(str_lstrip(s))

RECURSIVE str_split_from(_, _, _)
str_split_from(s, start, j) ==
    IF j > Len(s)
    THEN <<SubSeq(s, start, Len(s))>>
    ELSE IF s[j] = " "
         THEN <<SubSeq(s, start, j - 1)>> \o str_split_from(s, j + 1, j + 1)
         ELSE str_split_from(s, start, j + 1)

\* s.split(' '): s cut at every space, empty pieces kept
str_split(s) == str_split_from(s, 1, 1)

IsNonEmpty(part) == part # <<>>

\* parse_fio that keeps the empty strings of the split
parse_fio_empty_parts_kept(s) ==
    LET parts == str_split(str_strip(s))
    IN  IF Len(parts) >= 3
        THEN <<parts[1], parts[2], parts[3]>>
        ELSE IF Len(parts) = 2
             THEN <<parts[1], parts[2], <<>>>>
             ELSE <<IF parts # <<>> THEN parts[1] ELSE <<>>, <<>>, <<>>>>

\* parse_fio that takes the second of two parts for the patronymic
parse_fio_second_as_surname(s) ==
    LET split == str_split(str_strip(s))
        parts == SelectSeq(split, IsNonEmpty)
    IN  IF Len(parts) >= 3
        THEN <<parts[1], parts[2], parts[3]>>
        ELSE IF Len(parts) = 2
             THEN <<parts[1], <<>>, parts[2]>>
             ELSE <<IF parts # <<>> THEN parts[1] ELSE <<>>, <<>>, <<>>>>

\* the triple <<lastname, firstname, surname>>
parse_fio(s) ==
    LET split == str_split(str_strip(s))
        parts == SelectSeq(split, IsNonEmpty)
    IN  IF Len(parts) >= 3
        THEN <<parts[1], parts[2], parts[3]>>
        ELSE IF Len(parts) = 2
             THEN <<parts[1], parts[2], <<>>>>
             ELSE <<IF parts # <<>> THEN parts[1] ELSE <<>>, <<>>, <<>>>>

FioChars == {"a", "n", " ", "\t"}

FioInputs == UNION { [1..n -> FioChars] : n \in 0..MaxFioLen }

InitFio ==
    /\ pc = "fio"
    /\ fio_string \in FioInputs
    /\ fio = None
    /\ phone = <<>>
    /\ formatted = None
    /\ normalized = None
    /\ renormalized = None
    /\ raw_contacts = <<>>
    /\ processed_contacts = <<>>
    /\ contacts_list = <<>>
    /\ todo = <<>>
    /\ merged = <<>>
    /\ final_contacts = None

ParseFio ==
    /\ pc = "fio"
    /\ fio' = parse_fio(fio_string)
    /\ pc' = "parsed"
    /\ UNCHANGED <<fio_string, phone_vars, book_vars>>

NextFio == ParseFio

SpecFio == InitFio /\ [][NextFio]_vars

-----------------------------------------------------------------------------
(* Claim about parse_fio, checked under SpecFio.                           *)

IsAllWhitespace(s) == \A i \in 1..Len(s) : s[i] \in Whitespace

\* s without its leading and trailing whitespace
Trimmed(s) ==
    IF IsAllWhitespace(s)
    THEN <<>>
    ELSE LET first == CHOOSE i \in 1..Len(s) :
                          s[i] \notin Whitespace /\ \A k \in 1..(i - 1) : s[k] \in Whitespace
             last == CHOOSE i \in 1..Len(s) :
                         s[i] \notin Whitespace /\ \A k \in (i + 1)..Len(s) : s[k] \in Whitespace
         IN  SubSeq(s, first, last)

\* the positions of t at which a maximal run of characters other than the space starts
TokenStarts(t) == { i \in 1..Len(t) : t[i] # " " /\ (i = 1 \/ t[i - 1] = " ") }

\* the maximal run of characters other than the space that starts at i
TokenFrom(t, i) ==
    LET e == CHOOSE k \in i..Len(t) :
                 /\ \A m \in i..k : t[m] # " "
                 /\ (k = Len(t) \/ t[k + 1] = " ")
    IN  SubSeq(t, i, e)

\* the k-th token of t, the empty string when t has fewer than k tokens
Token(t, k) ==
    LET starts == TokenStarts(t)
    IN  IF k <= Cardinality(starts)
        THEN TokenFrom(t, CHOOSE i \in starts : Cardinality({j \in starts : j < i}) = k - 1)
        ELSE <<>>

\* C4: parse_fio returns, for every input, the first three of the non-empty
\* tokens T of the trimmed input cut at the space character: (T1, T2, T3) with
\* three or more tokens (the rest dropped), (T1, T2, "") with two, (T1, "", "")
\* with one and ("", "", "") with none.
C4_ParseFio ==
    pc = "parsed" =>
        LET t == Trimmed(fio_string)
            n == Cardinality(TokenStarts(t))
        IN  /\ Len(fio) = 3
            /\ n >= 3 => fio = <<Token(t, 1), Token(t, 2), Token(t, 3)>>
            /\ n = 2 => fio = <<Token(t, 1), Token(t, 2), <<>>>>
            /\ n = 1 => fio = <<Token(t, 1), <<>>, <<>>>>
            /\ n = 0 => fio = <<<<>>, <<>>, <<>>>>

\* four tokens between repeated spaces were parsed and the fourth was dropped
C4_Witness ==
    /\ pc = "parsed"
    /\ fio_string = <<"a", " ", " ", "n", " ", "a", " ", "n">>
    /\ fio = <<<<"a">>, <<"n">>, <<"a">>>>

-----------------------------------------------------------------------------
(* merge_contacts.  The defaultdict is a sequence of entries [key, value]  *)
(* in insertion order, which is the order of list(merged.values()).        *)

\* the value the default factory makes
default_contact ==
    [lastname |-> <<>>, firstname |-> <<>>, surname |-> <<>>,
     organization |-> <<>>, position |-> <<>>, phone |-> <<>>, email |-> <<>>]

contact_key(contact) == <<contact.lastname, contact.firstname>>

dict_has(m, key) == \E i \in 1..Len(m) : m[i].key = key

\* merged[key], read: a missing key is inserted with the default value first
dict_touch(m, key) ==
    IF dict_has(m, key) THEN m ELSE Append(m, [key |-> key, value |-> default_contact])

dict_get(m, key) == m[CHOOSE i \in 1..Len(m) : m[i].key = key].value

\* merged[key][field] = v, for a key that is present
dict_set(m, key, field, v) ==
    [i \in 1..Len(m) |->
        IF m[i].key = key THEN [m[i] EXCEPT !.value[field] = v] ELSE m[i]]

\* list(merged.values())
dict_values(m) == [i \in 1..Len(m) |-> m[i].value]

\* one field of the loop body, the last value winning
merge_field_last_wins(m, key, contact, field) ==
    IF contact[field] # <<>>
    THEN dict_set(dict_touch(m, key), key, field, contact[field])
    ELSE m

\* if contact[field] and not merged[key][field]: merged[key][field] = contact[field]
\* (merged[key] is not read when contact[field] is empty)
merge_field(m, key, contact, field) ==
    IF contact[field] # <<>>
    THEN LET touched == dict_touch(m, key)
         IN  IF dict_get(touched, key)[field] = <<>>
             THEN dict_set(touched, key, field, contact[field])
             ELSE touched
    ELSE m

MergeFields == <<"lastname", "firstname", "surname", "organization", "position">>

RECURSIVE merge_fields(_, _, _, _)
\* the inner for loop over the fields
merge_fields(m, key, contact, fields) ==
    IF fields = <<>>
    THEN m
    ELSE merge_fields(merge_field(m, key, contact, Head(fields)), key, contact,
                      Tail(fields))

\* one iteration of the loop over contacts_list
merge_contact(m, contact) ==
    LET key == contact_key(contact)
        named == merge_fields(m, key, contact, MergeFields)
        phoned == merge_field(named, key, contact, "phone")
    IN  merge_field(phoned, key, contact, "email")

RECURSIVE merge_all(_, _)
merge_all(m, contacts) ==
    IF contacts = <<>>
    THEN m
    ELSE merge_all(merge_contact(m, Head(contacts)), Tail(contacts))

\* merge_contacts as a function of its argument
merge_contacts(contacts) == dict_values(merge_all(<<>>, contacts))

\* the call of merge_contacts: the empty defaultdict and the iterator
MergeStart(contacts) ==
    /\ contacts_list' = contacts
    /\ todo' = contacts
    /\ merged' = <<>>

\* the loop body for the next contact of contacts_list
MergeContact ==
    /\ pc = "merge"
    /\ todo # <<>>
    /\ merged' = merge_contact(merged, Head(todo))
    /\ todo' = Tail(todo)
    /\ UNCHANGED <<pc, phone_vars, fio_vars, raw_contacts, processed_contacts,
                   contacts_list, final_contacts>>

\* return list(merged.values())
MergeReturn ==
    /\ pc = "merge"
    /\ todo = <<>>
    /\ final_contacts' = dict_values(merged)
    /\ pc' = "done"
    /\ UNCHANGED <<phone_vars, fio_vars, raw_contacts, processed_contacts,
                   contacts_list, todo, merged>>

E == <<>>

MergeKeys == { <<E, E>>, <<<<"i">>, E>>, <<<<"i">>, <<"v">>>> }

\* <<surname, organization, position, phone, email>>
MergePayloads ==
    { <<E, E, E, E, E>>,
      <<<<"n">>, E, E, <<"1">>, E>>,
      <<<<"m">>, <<"f">>, E, E, <<"@">>>>,
      <<E, E, <<"j">>, <<"2">>, <<"&">>>>,
      <<E, <<"g">>, <<"k">>, E, E>> }

MergeContacts ==
    { [lastname |-> k[1], firstname |-> k[2], surname |-> q[1],
       organization |-> q[2], position |-> q[3], phone |-> q[4], email |-> q[5]] :
      k \in MergeKeys, q \in MergePayloads }

InitMerge ==
    /\ pc = "merge"
    /\ contacts_list \in UNION { [1..n -> MergeContacts] : n \in 0..MaxContacts }
    /\ todo = contacts_list
    /\ merged = <<>>
    /\ final_contacts = None
    /\ raw_contacts = <<>>
    /\ processed_contacts = <<>>
    /\ phone = <<>>
    /\ formatted = None
    /\ normalized = None
    /\ renormalized = None
    /\ fio_string = <<>>
    /\ fio = None

NextMerge == MergeContact \/ MergeReturn

SpecMerge == InitMerge /\ [][NextMerge]_vars

-----------------------------------------------------------------------------
(* process_address_book, from the rows read to the list returned.          *)

RECURSIVE str_join(_)
\* ' '.join(parts)
str_join(parts) ==
    IF parts = <<>>
    THEN <<>>
    ELSE IF Len(parts) = 1
         THEN parts[1]
         ELSE parts[1] \o <<" ">> \o str_join(Tail(parts))

\* the non-empty name fields of a row, in the order they are appended
fio_parts(contact) ==
    (IF contact.lastname # <<>> THEN <<contact.lastname>> ELSE <<>>)
        \o (IF contact.firstname # <<>> THEN <<contact.firstname>> ELSE <<>>)
        \o (IF contact.surname # <<>> THEN <<contact.surname>> ELSE <<>>)

\* the body of the loop over raw_contacts: the processed contact of one row
process_contact(contact) ==
    LET name == parse_fio(str_join(fio_parts(contact)))
    IN  [lastname |-> name[1],
         firstname |-> name[2],
         surname |-> name[3],
         organization |-> contact.organization,
         position |-> contact.position,
         phone |-> process_phone_with_extension(contact.phone),
         email |-> contact.email]

RawRecords ==
    {
      [lastname |-> <<"i">>,
       firstname |-> <<"v">>,
       surname |-> E,
       organization |-> E,
       position |-> E,
       phone |-> <<"8", "9", "1", "6", "1", "2", "3", "4", "5", "6", "7">>,
       email |-> <<"@">>],
      [lastname |-> <<"i">>,
       firstname |-> <<"v">>,
       surname |-> <<"n">>,
       organization |-> <<"f">>,
       position |-> <<"j">>,
       phone |-> E,
       email |-> E],
      [lastname |-> <<"i", " ", "v", " ", "n">>,
       firstname |-> E,
       surname |-> E,
       organization |-> E,
       position |-> E,
       phone |-> <<"+", "7", " ", "9", "1", "6", " ", "1", "2", "3", "4", "5", "6", "7", " ", "D", "o", "B", ".", " ", "1", "2">>,
       email |-> E],
      [lastname |-> <<"i">>,
       firstname |-> <<"v", " ", "n">>,
       surname |-> E,
       organization |-> <<"g">>,
       position |-> E,
       phone |-> <<"x">>,
       email |-> <<"&">>],
      [lastname |-> E,
       firstname |-> <<"v">>,
       surname |-> E,
       organization |-> E,
       position |-> E,
       phone |-> E,
       email |-> E],
      [lastname |-> E,
       firstname |-> E,
       surname |-> E,
       organization |-> E,
       position |-> E,
       phone |-> E,
       email |-> E],
      [lastname |-> <<"p", " ", " ", "v">>,
       firstname |-> E,
       surname |-> <<"n">>,
       organization |-> E,
       position |-> <<"k">>,
       phone |-> <<"8", "(", "9", "1", "6", ")", "1", "2", "3", "-", "4", "5", "-", "6", "7", "d", "o", "b", "1", "d", "O", "b", ".", "2">>,
       email |-> E],
      [lastname |-> E,
       firstname |-> E,
       surname |-> <<"n">>,
       organization |-> E,
       position |-> E,
       phone |-> E,
       email |-> <<"@">>],
      [lastname |-> <<"p">>,
       firstname |-> E,
       surname |-> E,
       organization |-> E,
       position |-> E,
       phone |-> <<"8", "9", "1", "6", "1", "2", "3", "4", "5", "6", "7">>,
       email |-> E],
      [lastname |-> <<"i", " ", "v", " ", "n", " ", "p">>,
       firstname |-> E,
       surname |-> E,
       organization |-> E,
       position |-> E,
       phone |-> <<"d", "o", "b">>,
       email |-> E] }

Init ==
    /\ pc = "process"
    /\ raw_contacts \in UNION { [1..n -> RawRecords] : n \in 0..MaxRaw }
    /\ todo = raw_contacts
    /\ processed_contacts = <<>>
    /\ contacts_list = <<>>
    /\ merged = <<>>
    /\ final_contacts = None
    /\ phone = <<>>
    /\ formatted = None
    /\ normalized = None
    /\ renormalized = None
    /\ fio_string = <<>>
    /\ fio = None

\* one iteration of the loop over raw_contacts
ProcessContact ==
    /\ pc = "process"
    /\ todo # <<>>
    /\ processed_contacts' = Append(processed_contacts, process_contact(Head(todo)))
    /\ todo' = Tail(todo)
    /\ UNCHANGED <<pc, phone_vars, fio_vars, raw_contacts, contacts_list, merged,
                   final_contacts>>

\* final_contacts = merge_contacts(processed_contacts), entered
CallMerge ==
    /\ pc = "process"
    /\ todo = <<>>
    /\ MergeStart(processed_contacts)
    /\ pc' = "merge"
    /\ UNCHANGED <<phone_vars, fio_vars, raw_contacts, processed_contacts,
                   final_contacts>>

Next == ProcessContact \/ CallMerge \/ MergeContact \/ MergeReturn

Spec == Init /\ [][Next]_vars

-----------------------------------------------------------------------------
(* Claims about merge_contacts, checked under SpecMerge.                   *)

AllFields ==
    {"lastname", "firstname", "surname", "organization", "position", "phone", "email"}

SetOf(seq) == { seq[i] : i \in 1..Len(seq) }

\* the keys of the contacts given to merge_contacts
InputKeys == { contact_key(contacts_list[i]) : i \in 1..Len(contacts_list) }

\* the positions of the contacts with this key that have the field filled
Filled(contacts, key, field) ==
    { i \in 1..Len(contacts) :
        contact_key(contacts[i]) = key /\ contacts[i][field] # <<>> }

\* the field of the earliest contact with this key that has it filled, else empty
FirstNonEmpty(contacts, key, field) ==
    LET filled == Filled(contacts, key, field)
    IN  IF filled = {}
        THEN <<>>
        ELSE contacts[CHOOSE i \in filled : \A j \in filled : i <= j][field]

\* C5: merge_contacts returns exactly one contact per distinct
\* (lastname, firstname) of its input: as many contacts as keys, no key twice,
\* each contact carrying the key of its group, and the contacts with both
\* names empty collapsed into a single contact.
C5_OnePerKey ==
    pc = "done" =>
        /\ Len(final_contacts) = Cardinality(InputKeys)
        /\ \A i, j \in 1..Len(final_contacts) :
               i # j => contact_key(final_contacts[i]) # contact_key(final_contacts[j])
        /\ \A i \in 1..Len(final_contacts) :
               contact_key(final_contacts[i]) = merged[i].key
        /\ \A k \in InputKeys :
               \E i \in 1..Len(final_contacts) : contact_key(final_contacts[i]) = k

DistinctKeys(contacts) ==
    \A i, j \in 1..Len(contacts) :
        i # j => contact_key(contacts[i]) # contact_key(contacts[j])

\* C7: an input whose keys are pairwise distinct comes back as the same set
\* of contacts with every field kept, so that merging a merged list again
\* changes nothing.
C7_MergeIdempotent ==
    pc = "done" =>
        /\ DistinctKeys(contacts_list) => SetOf(final_contacts) = SetOf(contacts_list)
        /\ SetOf(merge_contacts(final_contacts)) = SetOf(final_contacts)

-----------------------------------------------------------------------------
(* Claims about process_address_book, checked under Spec.                  *)

\* the stages composed in order: one processed contact per row, then one merge
PipelineComposition ==
    pc = "done" =>
        /\ Len(processed_contacts) = Len(raw_contacts)
        /\ \A j \in 1..Len(raw_contacts) :
               LET row == raw_contacts[j]
                   c == processed_contacts[j]
                   given == SelectSeq(<<row.lastname, row.firstname, row.surname>>,
                                      IsNonEmpty)
                   joined == CASE Len(given) = 0 -> <<>>
                               [] Len(given) = 1 -> given[1]
                               [] Len(given) = 2 -> given[1] \o <<" ">> \o given[2]
                               [] Len(given) = 3 ->
                                      given[1] \o <<" ">> \o given[2] \o <<" ">> \o given[3]
               IN  /\ <<c.lastname, c.firstname, c.surname>> = parse_fio(joined)
                   /\ c.phone = process_phone_with_extension(row.phone)
                   /\ c.organization = row.organization
                   /\ c.position = row.position
                   /\ c.email = row.email
        /\ contacts_list = processed_contacts
        /\ final_contacts = merge_contacts(processed_contacts)

\* C8: process_address_book makes one processed contact per row, in order,
\* with the name re-parsed from the joined non-empty name fields, the phone
\* normalised and organization, position and email kept; it merges the
\* processed contacts once and returns the result, so that the rows whose
\* re-parsed (lastname, firstname) coincide end up as one returned row.
C8_Pipeline ==
    /\ PipelineComposition
    /\ pc = "done" =>
           \A j \in 1..Len(processed_contacts) :
               Cardinality({ i \in 1..Len(final_contacts) :
                   contact_key(final_contacts[i]) = contact_key(processed_contacts[j]) }) = 1

HasSpace(s) == \E i \in 1..Len(s) : s[i] = " "

\* C10: every returned contact has names without the space character, filled
\* left to right: a firstname only with a lastname, a surname only with a
\* firstname.
C10_NameShape ==
    pc = "done" =>
        \A i \in 1..Len(final_contacts) :
            LET c == final_contacts[i]
            IN  /\ ~HasSpace(c.lastname)
                /\ ~HasSpace(c.firstname)
                /\ ~HasSpace(c.surname)
                /\ c.firstname # <<>> => c.lastname # <<>>
                /\ c.surname # <<>> => c.firstname # <<>>

\* a row without a lastname came out with its firstname as the lastname, and
\* a row with a spaced lastname came out with three names
C10_Witness ==
    /\ pc = "done"
    /\ \E j \in 1..Len(raw_contacts) : \E i \in 1..Len(final_contacts) :
           /\ raw_contacts[j].lastname = <<>>
           /\ raw_contacts[j].firstname # <<>>
           /\ final_contacts[i].lastname = raw_contacts[j].firstname
           /\ final_contacts[i].firstname = <<>>
    /\ \E j \in 1..Len(raw_contacts) : \E i \in 1..Len(final_contacts) :
           /\ HasSpace(raw_contacts[j].lastname)
           /\ final_contacts[i].surname # <<>>
           /\ contact_key(final_contacts[i]) = contact_key(processed_contacts[j])

====
